---------------------------- MODULE Spec2Model ----------------------------
(***************************************************************************)
(* Alert-pair correlation and disposition engine                           *)
(* (src/alert_resolution_agent.py, endpoints of src/main.py).              *)
(*                                                                         *)
(* Subjects and timestamps are TLA+ strings; the regular expressions and   *)
(* the string methods of the source are modelled character by character.   *)
(***************************************************************************)
EXTENDS Integers, Sequences, FiniteSets, TLC

(***************************************************************************)
(* Characters and the str methods used by the source                       *)
(***************************************************************************)
Ch(s, i) == SubSeq(s, i, i)

UpperChars == "ABCDEFGHIJKLMNOPQRSTUVWXYZ"
LowerChars == "abcdefghijklmnopqrstuvwxyz"
DigitChars == "0123456789"

InChars(c, chars) == \E i \in 1..Len(chars) : Ch(chars, i) = c

IsDigit(c) == InChars(c, DigitChars)
IsAlpha(c) == InChars(c, UpperChars) \/ InChars(c, LowerChars)
\* \w of the re module (ASCII part)
IsWordChar(c) == IsAlpha(c) \/ IsDigit(c) \/ c = "_"
\* \s of the re module, and what str.strip() removes
IsSpace(c) == c \in {" ", "\t", "\n", "\r", "\f"}

LowerCh(c) ==
    IF InChars(c, UpperChars)
    THEN Ch(LowerChars, CHOOSE i \in 1..Len(UpperChars) : Ch(UpperChars, i) = c)
    ELSE c

RECURSIVE LowerFrom(_, _)
LowerFrom(s, i) == IF i > Len(s) THEN "" ELSE LowerCh(Ch(s, i)) \o LowerFrom(s, i + 1)
\* str.lower()
lower(s) == LowerFrom(s, 1)

RECURSIVE lstrip(_)
lstrip(s) == IF Len(s) > 0 /\ IsSpace(Ch(s, 1)) THEN lstrip(Tail(s)) ELSE s
RECURSIVE rstrip(_)
rstrip(s) ==
    IF Len(s) > 0 /\ IsSpace(Ch(s, Len(s))) THEN rstrip(SubSeq(s, 1, Len(s) - 1)) ELSE s
\* str.strip()
strip(s) == rstrip(lstrip(s))

StartsWith(s, p) == Len(s) >= Len(p) /\ SubSeq(s, 1, Len(p)) = p
\* Python's  p in s
Contains(s, p) == \E i \in 1..(Len(s) - Len(p) + 1) : SubSeq(s, i, i + Len(p) - 1) = p
DropFirst(s, n) == SubSeq(s, n + 1, Len(s))

\* length of the longest run of digits of s that starts at position i
RECURSIVE DigitRun(_, _)
DigitRun(s, i) == IF i <= Len(s) /\ IsDigit(Ch(s, i)) THEN 1 + DigitRun(s, i + 1) ELSE 0

(***************************************************************************)
(* clean_subject                                                           *)
(***************************************************************************)
\* re.sub(r"^<prefix>\s*", "", s) for a literal prefix
StripPrefix(s, p) == IF StartsWith(s, p) THEN lstrip(DropFirst(s, Len(p))) ELSE s

\* re.sub(r"^\[firing:\d+\]\s*", "", s)
StripFiringTag(s) ==
    LET open == "[firing:"
        d    == DigitRun(s, Len(open) + 1)
        end  == Len(open) + d + 1
    IN  IF StartsWith(s, open) /\ d >= 1 /\ Ch(s, end) = "]"
        THEN lstrip(DropFirst(s, end))
        ELSE s

clean_subject(subject) ==
    IF subject = "" THEN ""
    ELSE LET s0 == strip(lower(subject))
             s1 == StripFiringTag(s0)
             s2 == StripPrefix(s1, "[resolved]")
             s3 == StripPrefix(s2, "resolved:")
             s4 == StripPrefix(s3, "alert-critical:")
             s5 == StripPrefix(s4, "alert-warning:")
             s6 == StripPrefix(s5, "crit alert:")
         IN  strip(s6)

(***************************************************************************)
(* is_firing_alert / is_resolved_alert                                     *)
(***************************************************************************)
is_firing_alert(subject) ==
    /\ subject # ""
    /\ LET subject_lower == lower(subject)
       IN  \/ Contains(subject_lower, "[firing")
           \/ Contains(subject_lower, "alert-critical")
           \/ Contains(subject_lower, "alert-warning")
           \/ Contains(subject_lower, "crit alert")

is_resolved_alert(subject) ==
    /\ subject # ""
    /\ LET subject_lower == lower(subject)
       IN  \/ Contains(subject_lower, "[resolved]")
           \/ Contains(subject_lower, "resolved:")

(***************************************************************************)
(* Regular-expression helpers of subjects_match                            *)
(***************************************************************************)
MatchAt(s, i, w) == i + Len(w) - 1 <= Len(s) /\ SubSeq(s, i, i + Len(w) - 1) = w

\* whether the character at position k exists and is a \w character
WordAt(s, k) == k >= 1 /\ k <= Len(s) /\ IsWordChar(Ch(s, k))
\* \b just before position p (p = Len(s) + 1 is the end of the string)
Boundary(s, p) == WordAt(s, p - 1) # WordAt(s, p)

\* the alternation alert|warning|critical|error tried at position i:
\* the length of the first alternative that matches, 0 when none does
StatusWords == <<"alert", "warning", "critical", "error">>
AltLen(s, i) ==
    IF \E k \in 1..Len(StatusWords) : MatchAt(s, i, StatusWords[k])
    THEN Len(StatusWords[CHOOSE k \in 1..Len(StatusWords) :
                 /\ MatchAt(s, i, StatusWords[k])
                 /\ \A j \in 1..(k - 1) : ~MatchAt(s, i, StatusWords[j])])
    ELSE 0

RECURSIVE RemoveStatusFrom(_, _)
RemoveStatusFrom(s, i) ==
    IF i > Len(s) THEN ""
    ELSE LET m == AltLen(s, i)
         IN  IF m > 0 THEN RemoveStatusFrom(s, i + m)
             ELSE Ch(s, i) \o RemoveStatusFrom(s, i + 1)
\* re.sub(r"alert|warning|critical|error", "", s).strip()
RemoveStatusWords(s) == strip(RemoveStatusFrom(s, 1))

RECURSIVE SubWordFrom(_, _, _)
SubWordFrom(s, w, i) ==
    IF i > Len(s) THEN ""
    ELSE IF MatchAt(s, i, w) /\ Boundary(s, i) /\ Boundary(s, i + Len(w))
         THEN "STATUS" \o SubWordFrom(s, w, i + Len(w))
         ELSE Ch(s, i) \o SubWordFrom(s, w, i + 1)
\* re.sub(r'\b' + w + r'\b', "STATUS", s)
SubWord(s, w) == SubWordFrom(s, w, 1)

status_pairs ==
    << <<"offline", "online">>,
       <<"down", "up">>,
       <<"lost", "restored">>,
       <<"unavailable", "available">>,
       <<"unavailable", "back online">>,
       <<"failure", "recovered">>,
       <<"failed", "succeeded">>,
       <<"high", "normal">>,
       <<"critical", "normal">>,
       <<"warning", "normal">>,
       <<"problem", "resolved">> >>

RECURSIVE NormalizeStatusFrom(_, _)
NormalizeStatusFrom(s, k) ==
    IF k > Len(status_pairs) THEN s
    ELSE NormalizeStatusFrom(SubWord(SubWord(s, status_pairs[k][1]), status_pairs[k][2]), k + 1)
\* the loop over status_pairs applied to one of the two strings
NormalizeStatus(s) == NormalizeStatusFrom(s, 1)

\* [a-zA-Z0-9_-]
IsIdChar(c) == IsAlpha(c) \/ IsDigit(c) \/ c = "_" \/ c = "-"
\* [0-9._-]
IsSepChar(c) == IsDigit(c) \/ c = "." \/ c = "_" \/ c = "-"
\* [a-zA-Z0-9_\s-]
IsEntityChar(c) == IsIdChar(c) \/ IsSpace(c)

RECURSIVE IdRun(_, _)
IdRun(s, i) == IF i <= Len(s) /\ IsIdChar(Ch(s, i)) THEN 1 + IdRun(s, i + 1) ELSE 0
RECURSIVE SepRun(_, _)
SepRun(s, i) == IF i <= Len(s) /\ IsSepChar(Ch(s, i)) THEN 1 + SepRun(s, i + 1) ELSE 0
RECURSIVE EntityRun(_, _)
EntityRun(s, i) == IF i <= Len(s) /\ IsEntityChar(Ch(s, i)) THEN 1 + EntityRun(s, i + 1) ELSE 0
RECURSIVE SpaceRun(_, _)
SpaceRun(s, i) == IF i <= Len(s) /\ IsSpace(Ch(s, i)) THEN 1 + SpaceRun(s, i + 1) ELSE 0
RECURSIVE WordRun(_, _)
WordRun(s, i) == IF WordAt(s, i) THEN 1 + WordRun(s, i + 1) ELSE 0

(* The matchers below return the position just after the match, 0 when the *)
(* pattern does not match at i.  Greedy quantifiers are tried from their   *)
(* longest length down, in the backtracking order of the re module.        *)

\* [a-zA-Z0-9_-]* \b  from position i, the star holding at most k characters
RECURSIVE IdStarThenBoundary(_, _, _)
IdStarThenBoundary(s, i, k) ==
    IF Boundary(s, i + k) THEN i + k
    ELSE IF k = 0 THEN 0 ELSE IdStarThenBoundary(s, i, k - 1)

\* [0-9._-]+ [a-zA-Z0-9_-]* \b  from position i, the plus holding at most m characters
RECURSIVE SepGroupThenBoundary(_, _, _)
SepGroupThenBoundary(s, i, m) ==
    IF m = 0 THEN 0
    ELSE LET e == IdStarThenBoundary(s, i + m, IdRun(s, i + m))
         IN  IF e # 0 THEN e ELSE SepGroupThenBoundary(s, i, m - 1)

\* [a-zA-Z0-9_-]+ (?:[0-9._-]+[a-zA-Z0-9_-]*)? \b  from i, the first plus holding at most n
RECURSIVE IdentifierEnd(_, _, _)
IdentifierEnd(s, i, n) ==
    IF n = 0 THEN 0
    ELSE LET g == SepGroupThenBoundary(s, i + n, SepRun(s, i + n))
         IN  IF g # 0 THEN g
             ELSE IF Boundary(s, i + n) THEN i + n
             ELSE IdentifierEnd(s, i, n - 1)

RECURSIVE FindIdentifiersFrom(_, _)
FindIdentifiersFrom(s, i) ==
    IF i > Len(s) THEN <<>>
    ELSE LET e == IF Boundary(s, i) THEN IdentifierEnd(s, i, IdRun(s, i)) ELSE 0
         IN  IF e # 0 THEN <<SubSeq(s, i, e - 1)>> \o FindIdentifiersFrom(s, e)
             ELSE FindIdentifiersFrom(s, i + 1)
\* re.findall(r'\b([a-zA-Z0-9_-]+(?:[0-9._-]+[a-zA-Z0-9_-]*)?)\b', s)
FindIdentifiers(s) == FindIdentifiersFrom(s, 1)

RECURSIVE FindWordsFrom(_, _)
FindWordsFrom(s, i) ==
    IF i > Len(s) THEN {}
    ELSE LET n == WordRun(s, i)
         IN  IF n > 0 THEN {SubSeq(s, i, i + n - 1)} \cup FindWordsFrom(s, i + n)
             ELSE FindWordsFrom(s, i + 1)
\* set(w for w in re.findall(r'\b\w+\b', s) if len(w) > 3)
LongWords(s) == {w \in FindWordsFrom(s, 1) : Len(w) > 3}

\* [a-zA-Z0-9_-]+ \b  from position i, the plus holding at most n characters
RECURSIVE IdPlusThenBoundary(_, _, _)
IdPlusThenBoundary(s, i, n) ==
    IF n = 0 THEN 0
    ELSE IF Boundary(s, i + n) THEN i + n ELSE IdPlusThenBoundary(s, i, n - 1)

\* \s+ on \s+ [a-zA-Z0-9_-]+ \b  from position i.  Each \s+ can only hold its whole
\* run: a shorter one is followed by a space, which is neither "o" nor in
\* [a-zA-Z0-9_-].
OnGroupThenBoundary(s, i) ==
    LET a == SpaceRun(s, i)
        b == SpaceRun(s, i + a + 2)
        j == i + a + 2 + b
    IN  IF a >= 1 /\ MatchAt(s, i + a, "on") /\ b >= 1
        THEN IdPlusThenBoundary(s, j, IdRun(s, j))
        ELSE 0

\* [a-zA-Z0-9_\s-]+ (?:\s+on\s+[a-zA-Z0-9_-]+)? \b  from i, the first plus holding at most n
RECURSIVE EntityEnd(_, _, _)
EntityEnd(s, i, n) ==
    IF n = 0 THEN 0
    ELSE LET g == OnGroupThenBoundary(s, i + n)
         IN  IF g # 0 THEN g
             ELSE IF Boundary(s, i + n) THEN i + n
             ELSE EntityEnd(s, i, n - 1)

RECURSIVE FindEntitiesFrom(_, _)
FindEntitiesFrom(s, i) ==
    IF i > Len(s) THEN <<>>
    ELSE LET e == IF Boundary(s, i) THEN EntityEnd(s, i, EntityRun(s, i)) ELSE 0
         IN  IF e # 0 THEN <<SubSeq(s, i, e - 1)>> \o FindEntitiesFrom(s, e)
             ELSE FindEntitiesFrom(s, i + 1)
\* re.findall(entity_pattern, s)
FindEntities(s) == FindEntitiesFrom(s, 1)

(***************************************************************************)
(* subjects_match: the eight rules, then the cascade                       *)
(***************************************************************************)
Rule1(f, r) == f = r

Rule2(f, r) == RemoveStatusWords(f) = RemoveStatusWords(r)

Rule3(f, r) == NormalizeStatus(RemoveStatusWords(f)) = NormalizeStatus(RemoveStatusWords(r))

Rule4(f, r) ==
    LET identifiers_firing   == FindIdentifiers(RemoveStatusWords(f))
        identifiers_resolved == FindIdentifiers(RemoveStatusWords(r))
    IN  \E a \in 1..Len(identifiers_firing) :
            /\ Len(identifiers_firing[a]) >= 4
            /\ \E k \in 1..Len(identifiers_firing[a]) :
                   LET c == Ch(identifiers_firing[a], k)
                   IN  IsDigit(c) \/ c = "_" \/ c = "-"
            /\ \E b \in 1..Len(identifiers_resolved) :
                   identifiers_firing[a] = identifiers_resolved[b]

Rule5(f, r) ==
    LET firing_clean   == RemoveStatusWords(f)
        resolved_clean == RemoveStatusWords(r)
    IN  /\ Contains(firing_clean, "service")
        /\ Contains(resolved_clean, "service")
        /\ \/ Contains(firing_clean, "unavailable") /\ Contains(resolved_clean, "back online")
           \/ Contains(firing_clean, "back online") /\ Contains(resolved_clean, "unavailable")

Min(a, b) == IF a < b THEN a ELSE b

\* len(common) / min(len(wf), len(wr)) >= 0.7, in integers
Rule6(f, r) ==
    LET words_firing   == LongWords(RemoveStatusWords(f))
        words_resolved == LongWords(RemoveStatusWords(r))
    IN  /\ words_firing # {}
        /\ words_resolved # {}
        /\ 10 * Cardinality(words_firing \cap words_resolved)
             >= 7 * Min(Cardinality(words_firing), Cardinality(words_resolved))

\* the containment test on the firing subject alone: it is the one looked for in the other
Rule7FiringInResolved(f, r) ==
    LET firing_clean   == RemoveStatusWords(f)
        resolved_clean == RemoveStatusWords(r)
    IN  /\ Contains(resolved_clean, firing_clean)
        /\ 10 * Len(firing_clean) >= 7 * Len(resolved_clean)

\* len(shorter) / len(longer) >= 0.7, in integers; the strings differ here (rule 2
\* did not fire), so the longer one is not empty
Rule7(f, r) ==
    LET firing_clean   == RemoveStatusWords(f)
        resolved_clean == RemoveStatusWords(r)
        longer  == IF Len(firing_clean) > Len(resolved_clean) THEN firing_clean ELSE resolved_clean
        shorter == IF Len(firing_clean) > Len(resolved_clean) THEN resolved_clean ELSE firing_clean
    IN  /\ Contains(longer, shorter)
        /\ 10 * Len(shorter) >= 7 * Len(longer)

Rule8(f, r) ==
    LET firing_entities   == FindEntities(RemoveStatusWords(f))
        resolved_entities == FindEntities(RemoveStatusWords(r))
    IN  \E a \in 1..Len(firing_entities) :
            /\ Len(firing_entities[a]) > 5
            /\ \E b \in 1..Len(resolved_entities) :
                   \/ firing_entities[a] = resolved_entities[b]
                   \/ Contains(resolved_entities[b], firing_entities[a])
                   \/ Contains(firing_entities[a], resolved_entities[b])

\* the number of the first rule that returns True, 0 when the function returns False
MatchRule(firing_subject, resolved_subject) ==
    IF firing_subject = "" \/ resolved_subject = "" THEN 0
    ELSE IF Rule1(firing_subject, resolved_subject) THEN 1
    ELSE IF Rule2(firing_subject, resolved_subject) THEN 2
    ELSE IF Rule3(firing_subject, resolved_subject) THEN 3
    ELSE IF Rule4(firing_subject, resolved_subject) THEN 4
    ELSE IF Rule5(firing_subject, resolved_subject) THEN 5
    ELSE IF Rule6(firing_subject, resolved_subject) THEN 6
    ELSE IF Rule7(firing_subject, resolved_subject) THEN 7
    ELSE IF Rule8(firing_subject, resolved_subject) THEN 8
    ELSE 0

subjects_match(firing_subject, resolved_subject) ==
    MatchRule(firing_subject, resolved_subject) # 0

(***************************************************************************)
(* datetime.fromisoformat(created.replace("Z", "+00:00")) and timedelta     *)
(***************************************************************************)
RECURSIVE ReplaceZFrom(_, _)
ReplaceZFrom(s, i) ==
    IF i > Len(s) THEN ""
    ELSE (IF Ch(s, i) = "Z" THEN "+00:00" ELSE Ch(s, i)) \o ReplaceZFrom(s, i + 1)
\* str.replace("Z", "+00:00")
ReplaceZ(s) == ReplaceZFrom(s, 1)

DigitVal(c) == (CHOOSE i \in 1..Len(DigitChars) : Ch(DigitChars, i) = c) - 1
\* the number written by the n digits of s from position i, -1 when they are not n digits
RECURSIVE Num(_, _, _)
Num(s, i, n) ==
    IF n = 0 THEN 0
    ELSE IF i + n - 1 > Len(s) \/ ~IsDigit(Ch(s, i + n - 1)) THEN -1
    ELSE LET hi == Num(s, i, n - 1)
         IN  IF hi < 0 THEN -1 ELSE 10 * hi + DigitVal(Ch(s, i + n - 1))

IsLeap(y) == (y % 4 = 0 /\ y % 100 # 0) \/ y % 400 = 0
DaysInMonth(y, m) ==
    IF m = 2 THEN (IF IsLeap(y) THEN 29 ELSE 28)
    ELSE IF m \in {4, 6, 9, 11} THEN 30 ELSE 31
\* days of the proleptic Gregorian calendar up to the date (date.toordinal, up to a constant)
DayNumber(y, m, d) ==
    LET yy  == IF m <= 2 THEN y - 1 ELSE y
        mm  == IF m > 2 THEN m - 3 ELSE m + 9
    IN  365 * yy + (yy \div 4) - (yy \div 100) + (yy \div 400) + ((153 * mm + 2) \div 5) + d - 1

NotADate == [ok |-> FALSE, aware |-> FALSE, day |-> 0, sec |-> 0, us |-> 0]

\* a UTC offset +HH:MM or -HH:MM: its seconds, or 100000 when z is not one
OffsetSeconds(z) ==
    LET hh == Num(z, 2, 2)
        mm == Num(z, 5, 2)
    IN  IF Len(z) = 6 /\ Ch(z, 1) \in {"+", "-"} /\ Ch(z, 4) = ":" /\ hh >= 0 /\ hh < 24
           /\ mm >= 0 /\ mm < 60
        THEN (IF Ch(z, 1) = "-" THEN -1 ELSE 1) * (hh * 3600 + mm * 60)
        ELSE 100000

(* datetime.fromisoformat on YYYY-MM-DD, YYYY-MM-DD?HH:MM and                *)
(* YYYY-MM-DD?HH:MM:SS[.fff[fff]], each time part with an optional offset   *)
(* +HH:MM / -HH:MM; every other string raises ValueError.  An aware value   *)
(* is kept as its UTC instant (day, second of the day, microsecond).        *)
fromisoformat(s) ==
    LET y   == Num(s, 1, 4)
        mo  == Num(s, 6, 2)
        d   == Num(s, 9, 2)
        dateOk == /\ Len(s) >= 10 /\ Ch(s, 5) = "-" /\ Ch(s, 8) = "-"
                  /\ y >= 1 /\ mo >= 1 /\ mo <= 12 /\ d >= 1 /\ d <= DaysInMonth(y, mo)
        h   == Num(s, 12, 2)
        mi  == Num(s, 15, 2)
        hasSec == Len(s) >= 17 /\ Ch(s, 17) = ":"
        se  == IF hasSec THEN Num(s, 18, 2) ELSE 0
        afterSec == IF hasSec THEN 20 ELSE 17
        hasFrac == hasSec /\ Len(s) >= 20 /\ Ch(s, 20) = "."
        fd  == IF hasFrac THEN DigitRun(s, 21) ELSE 0
        us  == IF ~hasFrac THEN 0
               ELSE IF fd = 3 THEN 1000 * Num(s, 21, 3)
               ELSE IF fd = 6 THEN Num(s, 21, 6) ELSE -1
        zoneAt == IF hasFrac THEN 21 + fd ELSE afterSec
        zone == SubSeq(s, zoneAt, Len(s))
        off  == IF zone = "" THEN 0 ELSE OffsetSeconds(zone)
        timeOk == /\ Len(s) >= 16 /\ Ch(s, 14) = ":"
                  /\ h >= 0 /\ h < 24 /\ mi >= 0 /\ mi < 60 /\ se >= 0 /\ se < 60
                  /\ us >= 0 /\ off # 100000
    IN  IF ~dateOk THEN NotADate
        ELSE IF Len(s) = 10
             THEN [ok |-> TRUE, aware |-> FALSE, day |-> DayNumber(y, mo, d), sec |-> 0, us |-> 0]
        ELSE IF ~timeOk THEN NotADate
        ELSE [ok |-> TRUE, aware |-> zone # "", day |-> DayNumber(y, mo, d),
              sec |-> h * 3600 + mi * 60 + se - off, us |-> us]

\* fromisoformat(created.replace("Z", "+00:00"))
ParseCreated(created) == fromisoformat(ReplaceZ(created))

(* resolved_time - firing_time as whole seconds plus microseconds in        *)
(* 0..999999 (the normal form of timedelta); subtracting an aware and a     *)
(* naive datetime raises TypeError: ok is FALSE.                            *)
TimeDelta(firing_time, resolved_time) ==
    LET s == (resolved_time.day - firing_time.day) * 86400 + (resolved_time.sec - firing_time.sec)
        u == resolved_time.us - firing_time.us
    IN  IF firing_time.aware # resolved_time.aware THEN [ok |-> FALSE, sec |-> 0, us |-> 0]
        ELSE IF u < 0 THEN [ok |-> TRUE, sec |-> s - 1, us |-> u + 1000000]
        ELSE [ok |-> TRUE, sec |-> s, us |-> u]

\* the signed difference used where the code takes abs()
AbsDeltaSigned(td) == td

\* abs() of a timedelta in normal form
AbsDelta(td) ==
    IF td.sec >= 0 THEN td
    ELSE IF td.us = 0 THEN [td EXCEPT !.sec = -td.sec]
    ELSE [td EXCEPT !.sec = -td.sec - 1, !.us = 1000000 - td.us]

\* the threshold of  abs_time_diff_minutes <= 5
AUTO_CLOSE_MINUTES == 5

\* d.total_seconds() / 60 <= minutes for a non-negative timedelta d, on its exact value
AtMostMinutes(d, minutes) ==
    d.sec < minutes * 60 \/ (d.sec = minutes * 60 /\ d.us = 0)

(***************************************************************************)
(* Python values of the ticket dictionaries                                *)
(***************************************************************************)
PyNone    == <<"None">>
Missing   == <<"missing">>          \* the key is not in the dict
PyStr(s)  == <<"str", s>>
PyBool(b) == <<"bool", b>>
PyList(l) == <<"list", l>>
IsStr(v)  == v[1] = "str"
IsList(v) == v[1] = "list"
\* dict.get(key, default) on the value stored under key
Get(v, default) == IF v = Missing THEN default ELSE v
\* dict.get(key): None when the key is not in the dict
GetOrNone(v) == Get(v, PyNone)
\* truth value of None or a str
Truthy(v) == IsStr(v) /\ v[2] # ""

(***************************************************************************)
(* The tickets a fetch can return                                          *)
(***************************************************************************)
MaxTickets == 3

T0   == "2025-01-01T00:00:00Z"
T1   == "2025-01-01T00:01:00Z"
T5   == "2025-01-01T00:05:00Z"
T5us == "2025-01-01T00:05:00.000001Z"
T15  == "2025-01-01T00:15:00Z"
T40  == "2025-01-01T00:40:00Z"
T3naive == "2025-01-01T00:03:00"

DiskFiring   == "[FIRING:1] Disk usage warning on server-01"
DiskResolved == "[RESOLVED] Disk usage warning on server-01"
DbFiring     == "ALERT-CRITICAL: db-07 connection lost"
DbResolved   == "RESOLVED: db-07 connection restored"
ServiceDown  == "Service unavailable"
Stacked      == "[RESOLVED] [FIRING:1] Disk usage warning on server-01"
BareTag      == "[FIRING:2]"

Shape(subject, created_at, has_id) ==
    [subject |-> subject, created_at |-> created_at, has_id |-> has_id]

\* what one ticket of a response can look like; its id is its place in the response
TicketShapes ==
    { Shape(PyStr(DiskFiring), PyStr(T0), TRUE),
      Shape(PyStr(DiskFiring), PyStr(T15), TRUE),
      Shape(PyStr(DiskFiring), PyStr("n/a"), TRUE),
      Shape(PyStr(DiskResolved), PyStr(T5), TRUE),
      Shape(PyStr(DiskResolved), PyStr(T5us), TRUE),
      Shape(PyStr(DiskResolved), PyStr(T3naive), TRUE),
      Shape(PyStr(DiskResolved), PyNone, TRUE),
      Shape(PyStr(DiskResolved), PyStr("n/a"), TRUE),
      Shape(PyStr(DbFiring), PyStr(T0), TRUE),
      Shape(PyStr(DbResolved), PyStr(T40), TRUE),
      Shape(PyStr(ServiceDown), PyStr(T0), TRUE),
      Shape(PyStr(Stacked), PyStr(T0), TRUE),
      Shape(PyStr(BareTag), PyStr(T0), TRUE),
      Shape(PyStr(DiskFiring), PyStr(T0), FALSE),
      Shape(PyNone, PyStr(T0), TRUE),
      Shape(PyStr("  "), PyStr(T0), TRUE),
      Shape(Missing, PyStr(T0), TRUE) }

\* a ticket dict; id 0 stands for a missing or None id (falsy like 0)
Ticket(shape, i) ==
    [id |-> IF shape.has_id THEN i ELSE 0,
     subject |-> shape.subject,
     created_at |-> shape.created_at,
     clean_subject |-> Missing]

\* the "tickets" list of a response whose i-th ticket has the shape shapes[i]
Response(shapes) == [i \in 1..Len(shapes) |-> Ticket(shapes[i], i)]

(***************************************************************************)
(* The pure functions on the subjects and timestamps that occur, computed  *)
(* once                                                                    *)
(***************************************************************************)
\* the two tests of the if/elif in the other order
ClassifyResolvedFirst(subject) ==
    IF is_resolved_alert(subject) THEN "Resolved"
    ELSE IF is_firing_alert(subject) THEN "Firing"
    ELSE "Unclassified"

\* an if/else in place of the if/elif: what is not resolved is firing
ClassifyDefaultFiring(subject) ==
    IF is_resolved_alert(subject) /\ ~is_firing_alert(subject) THEN "Resolved"
    ELSE "Firing"

Classify(subject) ==
    IF is_firing_alert(subject) THEN "Firing"
    ELSE IF is_resolved_alert(subject) THEN "Resolved"
    ELSE "Unclassified"

\* f with every value computed, so that applying it is a lookup
Table(f) == f @@ <<>>

\* normalized subjects on which each rule of subjects_match decides at least once
MatcherSubjects ==
    { "service unavailable", "service back online",
      "cpu", "cpu critical", "cpu normal",
      "io/bad", "io/bad/x",
      "error-01 disk", "error-01 fan",
      "srv-01 fan", "srv-01 disk",
      "db-07 connection lost", "db-07 connection restored" }
FiringTag   == "[FIRING:1] "
ResolvedTag == "[RESOLVED] "
\* scenario C of the specification: the two subjects as the ticket source gives them
ScenarioC == <<"Service unavailable", "Service back online">>
\* the subjects of a firing and of a resolved ticket, as the ticket source gives them
MatcherTickets ==
    { <<FiringTag \o a, ResolvedTag \o b>> : a, b \in MatcherSubjects } \cup {ScenarioC}

\* ticket.get("subject", "").strip() of every subject text a fetch can return
StripOf ==
    Table([s \in {""} \cup { sh.subject[2] : sh \in { x \in TicketShapes : IsStr(x.subject) } }
                     \cup { p[1] : p \in MatcherTickets } \cup { p[2] : p \in MatcherTickets }
             |-> strip(s)])
RawSubjects   == { StripOf[sh.subject[2]] : sh \in { x \in TicketShapes : IsStr(x.subject) } }
FetchedSubjects == RawSubjects \cup { p[1] : p \in MatcherTickets } \cup { p[2] : p \in MatcherTickets }
CleanOf       == Table([s \in FetchedSubjects |-> clean_subject(s)])
ClassOf       == Table([s \in FetchedSubjects |-> Classify(s)])
CleanSubjects == { CleanOf[s] : s \in RawSubjects }
\* subjects that differ in one status word only: a common text followed by the one
\* or the other word of an entry of status_pairs
Contexts == {"db-07 connection ", "cpu "}
StatusSubjects ==
    { <<c \o status_pairs[k][1], c \o status_pairs[k][2]>> : c \in Contexts, k \in DOMAIN status_pairs }
RuleOf        ==
    Table([p \in (CleanSubjects \X CleanSubjects) \cup StatusSubjects
                   \cup (MatcherSubjects \X MatcherSubjects) |-> MatchRule(p[1], p[2])])
MatchOf       == Table([p \in DOMAIN RuleOf |-> RuleOf[p] # 0])
RawStamps     == { sh.created_at[2] : sh \in { x \in TicketShapes : IsStr(x.created_at) } } \cup {T1}
ParsedOf      == Table([c \in RawStamps |-> ParseCreated(c)])

(***************************************************************************)
(* fetch_tickets                                                           *)
(***************************************************************************)
\* what the GET request can end in when the API is configured
FetchFailures == {"non_200", "timeout", "connection_error", "exception"}

\* the "tickets" list in the body of a response, read here whatever the status code
fetch_tickets_any_status(api_configured, outcome, response) ==
    IF ~api_configured THEN <<>> ELSE response

\* the "tickets" list of the body that comes with each outcome of the request: a
\* response with another status than 200 has a body too, a request that raised has none
BodyOf(outcome, response) ==
    CASE outcome = "200"     -> response
      [] outcome = "non_200" -> Response(<<Shape(PyStr(DiskFiring), PyStr(T0), TRUE),
                                           Shape(PyStr(DiskResolved), PyStr(T5), TRUE)>>)
      [] OTHER               -> <<>>

\* the list fetch_tickets returns; response is the "tickets" list of the response body
fetch_tickets(api_configured, outcome, response) ==
    IF ~api_configured THEN <<>>
    ELSE IF outcome = "200" THEN response
    ELSE <<>>

(***************************************************************************)
(* categorize_tickets                                                      *)
(***************************************************************************)
RECURSIVE CategorizeFrom(_, _, _, _, _)
CategorizeFrom(tickets, i, seen, firing, resolved) ==
    IF i > Len(tickets)
    THEN [tickets |-> seen, firing_alerts |-> firing, resolved_alerts |-> resolved,
          raised |-> FALSE]
    ELSE LET ticket == tickets[i]
             got    == Get(ticket.subject, PyStr(""))
         IN  IF ~IsStr(got)                                        \* None.strip()
             THEN [tickets |-> seen \o SubSeq(tickets, i, Len(tickets)),
                   firing_alerts |-> <<>>, resolved_alerts |-> <<>>, raised |-> TRUE]
             ELSE LET subject == StripOf[got[2]]
                  IN  IF subject = ""
                      THEN CategorizeFrom(tickets, i + 1, Append(seen, ticket), firing, resolved)
                      ELSE LET cleaned == [ticket EXCEPT !.clean_subject = PyStr(CleanOf[subject])]
                               class   == ClassOf[subject]
                           IN  CategorizeFrom(tickets, i + 1, Append(seen, cleaned),
                                 IF class = "Firing" THEN Append(firing, cleaned) ELSE firing,
                                 IF class = "Resolved" THEN Append(resolved, cleaned) ELSE resolved)

\* the tickets (clean_subject attached in place) and the two lists the stage stores;
\* an exception inside the loop leaves both lists empty
categorize_tickets(tickets) == CategorizeFrom(tickets, 1, <<>>, <<>>, <<>>)

(***************************************************************************)
(* match_alert_pairs                                                       *)
(***************************************************************************)
\* the skip test without its "not id"
HasDataButId(alert) ==
    /\ Truthy(Get(alert.clean_subject, PyStr("")))
    /\ Truthy(GetOrNone(alert.created_at))

\* not (not subject or not id or not created)
HasData(alert) ==
    /\ Truthy(Get(alert.clean_subject, PyStr("")))
    /\ alert.id # 0
    /\ Truthy(GetOrNone(alert.created_at))

\* the pair dict of a firing and a resolved alert; the two time differences are kept
\* as exact timedeltas (seconds, microseconds), not divided by 60
MakePair(firing, resolved, time_diff) ==
    [firing |-> firing,
     resolved |-> resolved,
     time_diff_minutes |-> time_diff,
     abs_time_diff_minutes |-> AbsDelta(time_diff),
     firing_id |-> firing.id,
     resolved_id |-> resolved.id,
     firing_subject |-> Get(firing.subject, PyStr(""))[2],
     resolved_subject |-> Get(resolved.subject, PyStr(""))[2]]

\* the threshold test with < in place of <=
IsAutoCloseExclusive(pair) ==
    /\ AtMostMinutes(pair.abs_time_diff_minutes, AUTO_CLOSE_MINUTES)
    /\ ~(pair.abs_time_diff_minutes.sec = AUTO_CLOSE_MINUTES * 60 /\ pair.abs_time_diff_minutes.us = 0)

\* if abs_time_diff_minutes <= 5: auto-close, else manual review
IsAutoClose(pair) == AtMostMinutes(pair.abs_time_diff_minutes, AUTO_CLOSE_MINUTES)

\* the body of the inner loop for one resolved alert: the pair it appends, if any
PairOf(firing, firing_time, resolved) ==
    IF ~HasData(resolved) THEN <<>>
    ELSE IF ~MatchOf[<<firing.clean_subject[2], resolved.clean_subject[2]>>] THEN <<>>
    ELSE LET resolved_time == ParsedOf[resolved.created_at[2]]
         IN  IF ~resolved_time.ok THEN <<>>
             ELSE LET time_diff == TimeDelta(firing_time, resolved_time)
                  IN  IF ~time_diff.ok THEN <<>>
                      ELSE <<MakePair(firing, resolved, [sec |-> time_diff.sec, us |-> time_diff.us])>>

\* the inner loop with a break after the first pair it appends
RECURSIVE InnerLoopFirstMatch(_, _, _, _)
InnerLoopFirstMatch(firing, firing_time, resolved_alerts, j) ==
    IF j > Len(resolved_alerts) THEN <<>>
    ELSE IF PairOf(firing, firing_time, resolved_alerts[j]) # <<>>
         THEN PairOf(firing, firing_time, resolved_alerts[j])
         ELSE InnerLoopFirstMatch(firing, firing_time, resolved_alerts, j + 1)

RECURSIVE InnerLoop(_, _, _, _)
InnerLoop(firing, firing_time, resolved_alerts, j) ==
    IF j > Len(resolved_alerts) THEN <<>>
    ELSE PairOf(firing, firing_time, resolved_alerts[j])
           \o InnerLoop(firing, firing_time, resolved_alerts, j + 1)

\* the outer loop with a break in place of the continue after a failed parse
RECURSIVE OuterLoopBreakOnBadStamp(_, _, _)
OuterLoopBreakOnBadStamp(firing_alerts, resolved_alerts, i) ==
    IF i > Len(firing_alerts) THEN <<>>
    ELSE LET firing == firing_alerts[i]
             firing_time == ParsedOf[firing.created_at[2]]
         IN  IF ~HasData(firing)
             THEN OuterLoopBreakOnBadStamp(firing_alerts, resolved_alerts, i + 1)
             ELSE IF ~firing_time.ok THEN <<>>
             ELSE InnerLoop(firing, firing_time, resolved_alerts, 1)
                    \o OuterLoopBreakOnBadStamp(firing_alerts, resolved_alerts, i + 1)

RECURSIVE OuterLoop(_, _, _)
OuterLoop(firing_alerts, resolved_alerts, i) ==
    IF i > Len(firing_alerts) THEN <<>>
    ELSE LET firing == firing_alerts[i]
             firing_time == ParsedOf[firing.created_at[2]]
         IN  (IF HasData(firing) /\ firing_time.ok
              THEN InnerLoop(firing, firing_time, resolved_alerts, 1)
              ELSE <<>>)
               \o OuterLoop(firing_alerts, resolved_alerts, i + 1)

\* pairing in which a resolved alert is paired once, with the first firing alert it matches
match_alert_pairs_exclusive(firing_alerts, resolved_alerts) ==
    LET all   == OuterLoop(firing_alerts, resolved_alerts, 1)
        first == { k \in DOMAIN all : \A m \in 1..(k - 1) : all[m].resolved_id # all[k].resolved_id }
        pairs == SelectSeq([k \in DOMAIN all |-> <<k, all[k]>>], LAMBDA e : e[1] \in first)
    IN  [matched_pairs |-> SelectSeq([k \in DOMAIN pairs |-> pairs[k][2]], IsAutoClose),
         manual_review_tickets |->
             SelectSeq([k \in DOMAIN pairs |-> pairs[k][2]], LAMBDA pair : ~IsAutoClose(pair))]

\* the two buckets, each in the order the loops append to it
match_alert_pairs(firing_alerts, resolved_alerts) ==
    LET pairs == OuterLoop(firing_alerts, resolved_alerts, 1)
    IN  [matched_pairs |-> SelectSeq(pairs, IsAutoClose),
         manual_review_tickets |-> SelectSeq(pairs, LAMBDA pair : ~IsAutoClose(pair))]

(***************************************************************************)
(* close_ticket, process_matched_pairs                                     *)
(***************************************************************************)
\* what the PUT of the status update ends in, and what the POST of the note ends in
PutOutcomes  == {"200", "non_200", "timeout", "connection_error", "exception"}
NoteOutcomes == {"201", "non_201", "exception"}
\* how the two requests of one call end, if they are made
AllCloseResponses == [put : PutOutcomes, note : NoteOutcomes]
\* one call whose status update returns 200 and one whose status update does not
CloseResponses == {[put |-> "200", note |-> "201"], [put |-> "non_200", note |-> "201"]}

\* the requests a call issues, in order, each with what it ended in: none without
\* the API configuration, the POST of the note only after a PUT that returned 200
\* (process_matched_pairs always passes a note)
CloseRequests(api_configured, response) ==
    IF ~api_configured THEN <<>>
    ELSE IF response.put # "200" THEN <<[method |-> "PUT", outcome |-> response.put]>>
    ELSE <<[method |-> "PUT", outcome |-> "200"], [method |-> "POST", outcome |-> response.note]>>

\* a close that succeeds only when the note was attached too
close_ticket_with_note(api_configured, response) ==
    api_configured /\ response.put = "200" /\ response.note = "201"

close_ticket(api_configured, response) == api_configured /\ response.put = "200"

\* the append guarded by or in place of and
PairClosedEither(firing_closed, resolved_closed) == firing_closed \/ resolved_closed

\* whether the pair is appended to closed_tickets
PairClosed(firing_closed, resolved_closed) == firing_closed /\ resolved_closed

\* the loop calling close_ticket on the resolved ticket of each pair before the firing one
CloseCallsResolvedFirst(api_configured, matched_pairs, responses) ==
    [n \in 1..(2 * Len(matched_pairs)) |->
        LET pair == matched_pairs[(n + 1) \div 2]
        IN  [id |-> IF n % 2 = 1 THEN pair.resolved_id ELSE pair.firing_id,
             pair |-> (n + 1) \div 2,
             requests |-> CloseRequests(api_configured, responses[n]),
             closed |-> close_ticket(api_configured, responses[n])]]

\* the close_ticket calls of the loop, in order: those of pair k are 2k-1 and 2k
CloseCalls(api_configured, matched_pairs, responses) ==
    [n \in 1..(2 * Len(matched_pairs)) |->
        LET pair == matched_pairs[(n + 1) \div 2]
        IN  [id |-> IF n % 2 = 1 THEN pair.firing_id ELSE pair.resolved_id,
             pair |-> (n + 1) \div 2,
             requests |-> CloseRequests(api_configured, responses[n]),
             closed |-> close_ticket(api_configured, responses[n])]]

RECURSIVE ClosedFrom(_, _, _)
ClosedFrom(matched_pairs, calls, k) ==
    IF k > Len(matched_pairs) THEN <<>>
    ELSE (IF PairClosed(calls[2 * k - 1].closed, calls[2 * k].closed)
          THEN <<matched_pairs[k]>> ELSE <<>>)
           \o ClosedFrom(matched_pairs, calls, k + 1)

\* closed_tickets built by putting each closed pair in front of the list
process_matched_pairs_prepend(matched_pairs, calls) ==
    LET closed == ClosedFrom(matched_pairs, calls, 1)
    IN  [k \in DOMAIN closed |-> closed[Len(closed) + 1 - k]]

\* closed_tickets, given the calls the loop made
process_matched_pairs(matched_pairs, calls) == ClosedFrom(matched_pairs, calls, 1)

(***************************************************************************)
(* handle_manual_review, send_email_notification                           *)
(***************************************************************************)
\* pair.get(key, default) for the keys that hold a str
PairGet(pair, key, default) == IF key \in DOMAIN pair THEN pair[key] ELSE default

\* the table row of one pair, if formatting it does not raise
RowOf(pair) ==
    LET firing_created   == ParseCreated(PairGet(pair, "firing_created", ""))
        resolved_created == ParseCreated(PairGet(pair, "resolved_created", ""))
    IN  IF firing_created.ok /\ resolved_created.ok
        THEN <<[firing_id |-> pair.firing_id,
                firing_subject |-> pair.firing_subject,
                firing_created |-> firing_created,
                resolved_id |-> pair.resolved_id,
                resolved_subject |-> pair.resolved_subject,
                resolved_created |-> resolved_created,
                time_diff_minutes |-> pair.time_diff_minutes]>>
        ELSE <<>>

RECURSIVE RowsFrom(_, _)
RowsFrom(manual_review_tickets, k) ==
    IF k > Len(manual_review_tickets) THEN <<>>
    ELSE RowOf(manual_review_tickets[k]) \o RowsFrom(manual_review_tickets, k + 1)
\* the rows of the table of the body
BodyRows(manual_review_tickets) == RowsFrom(manual_review_tickets, 1)

\* what sending can end in
EmailOutcomes == {"sent", "not_configured", "smtp_error"}
send_email_notification(outcome) == outcome = "sent"

(***************************************************************************)
(* generate_summary                                                        *)
(***************************************************************************)
EmptyDict == [k \in {} |-> 0]

\* a summary whose matched_pairs counts both buckets
generate_summary_both_buckets(st) ==
    [total_tickets |-> Len(st.tickets[2]),
     firing_alerts |-> Len(st.firing_alerts[2]),
     resolved_alerts |-> Len(st.resolved_alerts[2]),
     matched_pairs |-> Len(st.matched_pairs[2]) + Len(st.manual_review_tickets[2]),
     closed_tickets |-> Len(st.closed_tickets[2]),
     manual_review_tickets |-> Len(st.manual_review_tickets[2]),
     email_sent |-> Get(st.email_sent, PyBool(FALSE))[2]]

\* the summary run_alert_resolution stores in its own except branches
generate_summary_error_only(st) == [error |-> "Error generating summary"]

\* the keys of the state dict the summary counts
SummaryKeys == {"tickets", "firing_alerts", "resolved_alerts", "matched_pairs",
                "closed_tickets", "manual_review_tickets"}

(* The summary dict without its "timestamp" (datetime.now()).  st is the     *)
(* state dict: each entry is a Python value, Missing when the key is not in *)
(* the dict.  state.get(key, []) gives [] for a key that is not there and   *)
(* None for a key that holds None; len(None) raises TypeError, and the      *)
(* except branch stores the summary with every count at 0 and an "error".   *)
generate_summary(st) ==
    IF \A key \in SummaryKeys : IsList(Get(st[key], PyList(<<>>)))
    THEN [total_tickets |-> Len(Get(st.tickets, PyList(<<>>))[2]),
          firing_alerts |-> Len(Get(st.firing_alerts, PyList(<<>>))[2]),
          resolved_alerts |-> Len(Get(st.resolved_alerts, PyList(<<>>))[2]),
          matched_pairs |-> Len(Get(st.matched_pairs, PyList(<<>>))[2]),
          closed_tickets |-> Len(Get(st.closed_tickets, PyList(<<>>))[2]),
          manual_review_tickets |-> Len(Get(st.manual_review_tickets, PyList(<<>>))[2]),
          email_sent |-> Get(st.email_sent, PyBool(FALSE))[2]]
    ELSE [total_tickets |-> 0,
          firing_alerts |-> 0,
          resolved_alerts |-> 0,
          matched_pairs |-> 0,
          closed_tickets |-> 0,
          manual_review_tickets |-> 0,
          email_sent |-> FALSE,
          error |-> "TypeError"]

(***************************************************************************)
(* The run: run_alert_resolution (entry "run"), the compiled graph of      *)
(* create_alert_resolution_graph (entry "graph"), both started on the      *)
(* initial state dict of run_alert_resolution, and the endpoint            *)
(* get_alert_resolution_summary of main.py (entry "summary").              *)
(*                                                                         *)
(* Every stage function catches Exception around its whole body, and so    *)
(* does fetch_tickets: no stage raises into run_alert_resolution, whose    *)
(* own except branches therefore never run.                                *)
(***************************************************************************)
VARIABLES
    entry,                  \* which of the pipelines runs
    api_configured,         \* API_KEY and DOMAIN and BASE_URL
    pc,                     \* the stage the run has completed
    tickets, firing_alerts, resolved_alerts,
    matched_pairs, closed_tickets, manual_review_tickets,
    email_sent,             \* state["email_sent"]
    summary,                \* state["summary"]
    fetch_outcome,          \* how the request of fetch_tickets ended
    close_calls,            \* the calls of close_ticket, in order
    remote_closed,          \* ids of the tickets the helpdesk has closed
    emails,                 \* the calls of send_email_notification, in order
    stages                  \* the stages executed, in order

state == <<tickets, firing_alerts, resolved_alerts, matched_pairs, closed_tickets,
           manual_review_tickets, email_sent, summary>>
effects == <<fetch_outcome, close_calls, remote_closed, emails>>
vars == <<entry, api_configured, pc, state, effects, stages>>

Entries == {"run", "graph", "summary"}

\* a pipeline in which the summary endpoint runs the stages of run_alert_resolution
StagesOfResolve(e) ==
    IF e = "graph"
    THEN <<"fetch", "categorize", "match", "process", "manual_review", "summary">>
    ELSE <<"fetch", "categorize", "match", "process", "summary">>

\* the stage functions each entry calls, in the order of its calls
StagesOf(e) ==
    CASE e = "run"     -> <<"fetch", "categorize", "match", "process", "summary">>
      [] e = "graph"   -> <<"fetch", "categorize", "match", "process", "manual_review", "summary">>
      [] e = "summary" -> <<"fetch", "categorize", "match", "response">>

\* stage is the next call of the running entry
Follows(stage) ==
    /\ Len(stages) < Len(StagesOf(entry))
    /\ StagesOf(entry)[Len(stages) + 1] = stage

\* the dict get_alert_resolution_summary returns
PairPreview(pair) ==
    [firing_id |-> pair.firing_id, firing_subject |-> pair.firing_subject,
     resolved_id |-> pair.resolved_id, resolved_subject |-> pair.resolved_subject,
     time_diff_minutes |-> pair.time_diff_minutes]
get_alert_resolution_summary(st) ==
    [total_tickets |-> Len(st.tickets),
     firing_alerts |-> Len(st.firing_alerts),
     resolved_alerts |-> Len(st.resolved_alerts),
     matched_pairs |-> Len(st.matched_pairs),
     manual_review_tickets |-> Len(st.manual_review_tickets),
     pairs_for_auto_close |-> [k \in DOMAIN st.matched_pairs |-> PairPreview(st.matched_pairs[k])],
     pairs_for_manual_review |->
         [k \in DOMAIN st.manual_review_tickets |-> PairPreview(st.manual_review_tickets[k])]]

Init ==
    /\ entry \in Entries
    /\ api_configured \in BOOLEAN
    /\ pc = "start"
    /\ tickets = <<>>
    /\ firing_alerts = <<>>
    /\ resolved_alerts = <<>>
    /\ matched_pairs = <<>>
    /\ closed_tickets = <<>>
    /\ manual_review_tickets = <<>>
    /\ email_sent = Missing
    /\ summary = EmptyDict
    /\ fetch_outcome = "none"
    /\ close_calls = <<>>
    /\ remote_closed = {}
    /\ emails = <<>>
    /\ stages = <<>>

\* fetch_tickets(hours) in run_alert_resolution, the node fetch_recent_tickets in the graph
Fetch ==
    /\ pc = "start"
    /\ Follows("fetch")
    /\ \/ /\ ~api_configured
          /\ fetch_outcome' = "not_configured"
          /\ tickets' = fetch_tickets(api_configured, "none", <<>>)
       \/ /\ api_configured
          /\ \E n \in 0..MaxTickets :
                \E shapes \in [1..n -> TicketShapes] :
                   /\ fetch_outcome' = "200"
                   /\ tickets' = fetch_tickets(api_configured, "200", BodyOf("200", Response(shapes)))
       \/ /\ api_configured
          /\ \E outcome \in FetchFailures :
                /\ fetch_outcome' = outcome
                /\ tickets' = fetch_tickets(api_configured, outcome, BodyOf(outcome, <<>>))
    /\ pc' = "fetched"
    /\ stages' = Append(stages, "fetch")
    /\ UNCHANGED <<entry, api_configured, firing_alerts, resolved_alerts, matched_pairs,
                   closed_tickets, manual_review_tickets, email_sent, summary,
                   close_calls, remote_closed, emails>>

Categorize ==
    /\ pc = "fetched"
    /\ Follows("categorize")
    /\ \E r \in {categorize_tickets(tickets)} :
           /\ tickets' = r.tickets
           /\ firing_alerts' = r.firing_alerts
           /\ resolved_alerts' = r.resolved_alerts
    /\ pc' = "categorized"
    /\ stages' = Append(stages, "categorize")
    /\ UNCHANGED <<entry, api_configured, matched_pairs, closed_tickets,
                   manual_review_tickets, email_sent, summary, effects>>

Match ==
    /\ pc = "categorized"
    /\ Follows("match")
    /\ \E r \in {match_alert_pairs(firing_alerts, resolved_alerts)} :
           /\ matched_pairs' = r.matched_pairs
           /\ manual_review_tickets' = r.manual_review_tickets
    /\ pc' = "matched"
    /\ stages' = Append(stages, "match")
    /\ UNCHANGED <<entry, api_configured, tickets, firing_alerts, resolved_alerts,
                   closed_tickets, email_sent, summary, effects>>

\* process_matched_pairs: two close_ticket calls per pair, the requests of each call
\* ending in one of outcomes
ProcessWith(outcomes) ==
    /\ pc = "matched"
    /\ Follows("process")
    /\ \E responses \in [1..(2 * Len(matched_pairs)) -> outcomes] :
          \E calls \in {CloseCalls(api_configured, matched_pairs, responses)} :
              /\ close_calls' = close_calls \o calls
              /\ remote_closed' = remote_closed
                                    \cup { calls[n].id : n \in { m \in DOMAIN calls : calls[m].closed } }
              /\ closed_tickets' = process_matched_pairs(matched_pairs, calls)
    /\ pc' = "processed"
    /\ stages' = Append(stages, "process")
    /\ UNCHANGED <<entry, api_configured, tickets, firing_alerts, resolved_alerts,
                   matched_pairs, manual_review_tickets, email_sent, summary,
                   fetch_outcome, emails>>

\* the stage in a run whose status updates return 200 or another status
Process == ProcessWith(CloseResponses)

\* the stage in a run whose requests end in any way
ProcessAny == ProcessWith(AllCloseResponses)

\* the node handle_manual_review; run_alert_resolution does not call it
ManualReview ==
    /\ pc = "processed"
    /\ Follows("manual_review")
    /\ \/ /\ manual_review_tickets = <<>>
          /\ UNCHANGED <<email_sent, emails>>
       \/ /\ manual_review_tickets # <<>>
          /\ \E outcome \in EmailOutcomes :
                /\ emails' = Append(emails, [pairs |-> Len(manual_review_tickets),
                                             rows |-> BodyRows(manual_review_tickets),
                                             sent |-> send_email_notification(outcome)])
                /\ email_sent' = PyBool(send_email_notification(outcome))
    /\ pc' = "reviewed"
    /\ stages' = Append(stages, "manual_review")
    /\ UNCHANGED <<entry, api_configured, tickets, firing_alerts, resolved_alerts,
                   matched_pairs, closed_tickets, manual_review_tickets, summary,
                   fetch_outcome, close_calls, remote_closed>>

Summarize ==
    /\ pc \in {"processed", "reviewed"}
    /\ Follows("summary")
    /\ summary' = generate_summary([tickets |-> PyList(tickets),
                                    firing_alerts |-> PyList(firing_alerts),
                                    resolved_alerts |-> PyList(resolved_alerts),
                                    matched_pairs |-> PyList(matched_pairs),
                                    closed_tickets |-> PyList(closed_tickets),
                                    manual_review_tickets |-> PyList(manual_review_tickets),
                                    email_sent |-> email_sent])
    /\ pc' = "summarized"
    /\ stages' = Append(stages, "summary")
    /\ UNCHANGED <<entry, api_configured, tickets, firing_alerts, resolved_alerts,
                   matched_pairs, closed_tickets, manual_review_tickets, email_sent, effects>>

\* the return statement of get_alert_resolution_summary, after its three stages
Respond ==
    /\ pc = "matched"
    /\ Follows("response")
    /\ summary' = get_alert_resolution_summary([tickets |-> tickets,
                                                firing_alerts |-> firing_alerts,
                                                resolved_alerts |-> resolved_alerts,
                                                matched_pairs |-> matched_pairs,
                                                manual_review_tickets |-> manual_review_tickets])
    /\ pc' = "done"
    /\ stages' = Append(stages, "response")
    /\ UNCHANGED <<entry, api_configured, tickets, firing_alerts, resolved_alerts,
                   matched_pairs, closed_tickets, manual_review_tickets, email_sent, effects>>

\* the return of run_alert_resolution (the result dict), the END of the graph
Finish ==
    /\ pc = "summarized"
    /\ pc' = "done"
    /\ UNCHANGED <<entry, api_configured, state, effects, stages>>

Next ==
    Fetch \/ Categorize \/ Match \/ Process \/ ManualReview \/ Summarize \/ Respond \/ Finish

Spec == Init /\ [][Next]_vars

\* match_alert_pairs on its own, as the summary endpoint runs it, started on the lists
\* categorize_tickets stores for one firing and one resolved ticket whose subjects
\* differ in one status word
StatusTickets(sp, created) ==
    LET fs == "ALERT-CRITICAL: " \o sp[1]
        rs == "RESOLVED: " \o sp[2]
    IN  << [id |-> 1, subject |-> PyStr(fs), created_at |-> PyStr(T0),
            clean_subject |-> PyStr(clean_subject(fs))],
           [id |-> 2, subject |-> PyStr(rs), created_at |-> PyStr(created),
            clean_subject |-> PyStr(clean_subject(rs))] >>

PairingInit ==
    /\ entry = "summary"
    /\ api_configured = TRUE
    /\ pc = "categorized"
    /\ \E sp \in StatusSubjects : \E created \in {T5, T40} :
          /\ tickets = StatusTickets(sp, created)
          /\ Classify(tickets[1].subject[2]) = "Firing"
          /\ Classify(tickets[2].subject[2]) = "Resolved"
          /\ firing_alerts = <<tickets[1]>>
          /\ resolved_alerts = <<tickets[2]>>
    /\ matched_pairs = <<>>
    /\ closed_tickets = <<>>
    /\ manual_review_tickets = <<>>
    /\ email_sent = Missing
    /\ summary = EmptyDict
    /\ fetch_outcome = "200"
    /\ close_calls = <<>>
    /\ remote_closed = {}
    /\ emails = <<>>
    /\ stages = <<"fetch", "categorize">>

PairingNext == Match \/ Respond

PairingSpec == PairingInit /\ [][PairingNext]_vars

\* the summary endpoint after a fetch that returned one firing and one resolved ticket,
\* created one minute apart, with the subjects of MatcherTickets
MatcherInit ==
    /\ entry = "summary"
    /\ api_configured = TRUE
    /\ pc = "fetched"
    /\ \E p \in MatcherTickets :
          tickets = fetch_tickets(TRUE, "200",
                                  Response(<<Shape(PyStr(p[1]), PyStr(T0), TRUE),
                                             Shape(PyStr(p[2]), PyStr(T1), TRUE)>>))
    /\ firing_alerts = <<>>
    /\ resolved_alerts = <<>>
    /\ matched_pairs = <<>>
    /\ closed_tickets = <<>>
    /\ manual_review_tickets = <<>>
    /\ email_sent = Missing
    /\ summary = EmptyDict
    /\ fetch_outcome = "200"
    /\ close_calls = <<>>
    /\ remote_closed = {}
    /\ emails = <<>>
    /\ stages = <<"fetch">>

MatcherNext == Categorize \/ Match \/ Respond

MatcherSpec == MatcherInit /\ [][MatcherNext]_vars

\* get_alert_resolution_summary: fetch, classification and pairing, nothing closed or sent
PreviewInit == Init /\ entry = "summary"

PreviewNext == Fetch \/ Categorize \/ Match \/ Respond

PreviewSpec == PreviewInit /\ [][PreviewNext]_vars

\* run_alert_resolution and the graph, the two entries that call process_matched_pairs
ProcessingInit == Init /\ entry \in {"run", "graph"}

ProcessingNext == Fetch \/ Categorize \/ Match \/ Process \/ ManualReview \/ Summarize \/ Finish

ProcessingSpec == ProcessingInit /\ [][ProcessingNext]_vars

\* run_alert_resolution after a fetch that returned one firing ticket and one or two
\* resolved tickets it is auto-closed with, the requests of close_ticket ending in any way
CloseInit ==
    /\ entry = "run"
    /\ api_configured \in BOOLEAN
    /\ pc = "fetched"
    /\ \E n \in 1..2 :
          tickets = fetch_tickets(TRUE, "200",
                                  Response([i \in 1..(n + 1) |->
                                              IF i = 1 THEN Shape(PyStr(DiskFiring), PyStr(T0), TRUE)
                                              ELSE Shape(PyStr(DiskResolved), PyStr(T5), TRUE)]))
    /\ firing_alerts = <<>>
    /\ resolved_alerts = <<>>
    /\ matched_pairs = <<>>
    /\ closed_tickets = <<>>
    /\ manual_review_tickets = <<>>
    /\ email_sent = Missing
    /\ summary = EmptyDict
    /\ fetch_outcome = "200"
    /\ close_calls = <<>>
    /\ remote_closed = {}
    /\ emails = <<>>
    /\ stages = <<"fetch">>

CloseNext == Categorize \/ Match \/ ProcessAny \/ Summarize \/ Finish

CloseSpec == CloseInit /\ [][CloseNext]_vars

(* The node generate_summary of the graph on a state dict of any content:   *)
(* here the six state variables hold the entries of the dict as Python      *)
(* values, Missing for a key that is not in the dict, None, or a list.      *)
MaxItems == 2
StateEntries == {Missing, PyNone} \cup { PyList([i \in 1..n |-> i]) : n \in 0..MaxItems }

SummaryInit ==
    /\ entry = "graph"
    /\ api_configured = TRUE
    /\ pc = "reviewed"
    /\ tickets \in StateEntries
    /\ firing_alerts \in StateEntries
    /\ resolved_alerts \in StateEntries
    /\ matched_pairs \in StateEntries
    /\ closed_tickets \in StateEntries
    /\ manual_review_tickets \in StateEntries
    /\ email_sent \in {Missing, PyBool(TRUE)}
    /\ summary = EmptyDict
    /\ fetch_outcome = "200"
    /\ close_calls = <<>>
    /\ remote_closed = {}
    /\ emails = <<>>
    /\ stages = <<"fetch", "categorize", "match", "process", "manual_review">>

GenerateSummary ==
    /\ pc = "reviewed"
    /\ Follows("summary")
    /\ summary' = generate_summary([tickets |-> tickets,
                                    firing_alerts |-> firing_alerts,
                                    resolved_alerts |-> resolved_alerts,
                                    matched_pairs |-> matched_pairs,
                                    closed_tickets |-> closed_tickets,
                                    manual_review_tickets |-> manual_review_tickets,
                                    email_sent |-> email_sent])
    /\ pc' = "summarized"
    /\ stages' = Append(stages, "summary")
    /\ UNCHANGED <<entry, api_configured, tickets, firing_alerts, resolved_alerts,
                   matched_pairs, closed_tickets, manual_review_tickets, email_sent, effects>>

SummaryNext == GenerateSummary \/ Finish

SummarySpec == SummaryInit /\ [][SummaryNext]_vars

\* the dict run_alert_resolution returns: seven keys, "email_sent" is not one of them
RunResult ==
    [tickets |-> tickets,
     firing_alerts |-> firing_alerts,
     resolved_alerts |-> resolved_alerts,
     matched_pairs |-> matched_pairs,
     closed_tickets |-> closed_tickets,
     manual_review_tickets |-> manual_review_tickets,
     summary |-> summary]

(***************************************************************************)
(* Properties                                                              *)
(***************************************************************************)
Range(seq) == { seq[i] : i \in DOMAIN seq }
CountFields == {"total_tickets", "firing_alerts", "resolved_alerts", "matched_pairs",
                "closed_tickets", "manual_review_tickets"}
AfterCategorize == pc \notin {"start", "fetched"}
AfterMatch      == pc \notin {"start", "fetched", "categorized"}
AfterProcess    == Len(stages) >= 4 /\ stages[4] = "process"

\* the markers of section 4.2, looked for in the subject as the ticket source gave it
FiringMarkers   == {"[firing", "alert-critical", "alert-warning", "crit alert"}
ResolvedMarkers == {"[resolved]", "resolved:"}
HasMarker(subject, markers) == \E m \in markers : Contains(lower(subject), m)
SubjectText(subject) == IF IsStr(subject) THEN strip(subject[2]) ELSE ""
MarkersOf ==
    Table([v \in { sh.subject : sh \in TicketShapes } |->
             [firing   |-> HasMarker(SubjectText(v), FiringMarkers),
              resolved |-> HasMarker(SubjectText(v), ResolvedMarkers)]])
HasFiringMarker(ticket)   == MarkersOf[ticket.subject].firing
HasResolvedMarker(ticket) == MarkersOf[ticket.subject].resolved
\* categorize_tickets hit a None subject and stored two empty lists
CategorizeRaised == \E i \in DOMAIN tickets : tickets[i].subject = PyNone

\* C1 (as claimed): after a run the summary's matched_pairs field equals the
\* auto-close count plus its manual_review_tickets field, and is at most
\* firing_alerts * resolved_alerts.
C1_MatchedIsAutoPlusManual ==
    pc = "done" =>
        /\ summary.matched_pairs = Len(matched_pairs) + summary.manual_review_tickets
        /\ summary.matched_pairs <= summary.firing_alerts * summary.resolved_alerts

\* C1 (amended): after a run the summary's matched_pairs field is the auto-close
\* count alone, the pairs that matched number matched_pairs + manual_review_tickets,
\* and that total is at most firing_alerts * resolved_alerts.
C1_MatchedTotalBounded ==
    pc = "done" =>
        /\ summary.matched_pairs = Len(matched_pairs)
        /\ summary.manual_review_tickets = Len(manual_review_tickets)
        /\ summary.matched_pairs + summary.manual_review_tickets
             <= summary.firing_alerts * summary.resolved_alerts

C1_Witness ==
    pc = "done" /\ summary.matched_pairs >= 1 /\ summary.manual_review_tickets >= 1

\* the gap between the two creation instants of a pair is at most 300 seconds,
\* from the created_at strings of its two tickets
GapWithin300s(pair) ==
    LET f  == ParsedOf[pair.firing.created_at[2]]
        r  == ParsedOf[pair.resolved.created_at[2]]
        d  == (r.day - f.day) * 86400 + (r.sec - f.sec)
        du == r.us - f.us
    IN  /\ d <= 299 \/ (d = 300 /\ du <= 0)
        /\ d >= -299 \/ (d = -300 /\ du >= 0)

\* C2: every pair of the auto-close bucket has an absolute gap of at most 5 minutes
\* (300 s exactly included) and every pair of the manual-review bucket a larger one.
C2_DispositionByGap ==
    AfterMatch =>
        /\ \A k \in DOMAIN matched_pairs : GapWithin300s(matched_pairs[k])
        /\ \A k \in DOMAIN manual_review_tickets : ~GapWithin300s(manual_review_tickets[k])

\* a gap of exactly 300 s was auto-closed, one of 300 s + 1 microsecond was not
C2_Witness ==
    /\ pc = "matched"
    /\ \E k \in DOMAIN matched_pairs :
          /\ matched_pairs[k].firing.created_at = PyStr(T0)
          /\ matched_pairs[k].resolved.created_at = PyStr(T5)
    /\ \E k \in DOMAIN manual_review_tickets :
          /\ manual_review_tickets[k].firing.created_at = PyStr(T0)
          /\ manual_review_tickets[k].resolved.created_at = PyStr(T5us)

\* C3: cleaning a cleaned subject changes nothing, for the subject of every ticket
\* the classifier has cleaned.
C3_CleanIdempotent ==
    \A i \in DOMAIN tickets :
        IsStr(tickets[i].clean_subject) =>
            clean_subject(tickets[i].clean_subject[2]) = tickets[i].clean_subject[2]

\* C4: no ticket is in both the firing and the resolved list, every ticket of a
\* list carries that list's marker, and a ticket whose subject holds both a firing
\* and a resolved marker is in the firing list.
C4_ClassifyTotalFiringFirst ==
    AfterCategorize =>
        /\ Range(firing_alerts) \cap Range(resolved_alerts) = {}
        /\ \A t \in Range(firing_alerts) : HasFiringMarker(t)
        /\ \A t \in Range(resolved_alerts) : HasResolvedMarker(t) /\ ~HasFiringMarker(t)
        /\ ~CategorizeRaised =>
              \A i \in DOMAIN tickets :
                  HasFiringMarker(tickets[i]) /\ HasResolvedMarker(tickets[i]) =>
                      /\ tickets[i] \in Range(firing_alerts)
                      /\ tickets[i] \notin Range(resolved_alerts)

C4_Witness ==
    /\ pc = "categorized"
    /\ \E t \in Range(firing_alerts) : HasFiringMarker(t) /\ HasResolvedMarker(t)
    /\ resolved_alerts # <<>>

Unmarked(ticket) == ~HasFiringMarker(ticket) /\ ~HasResolvedMarker(ticket)
PairIds(pairs) == { pairs[k].firing_id : k \in DOMAIN pairs } \cup { pairs[k].resolved_id : k \in DOMAIN pairs }

\* C5: a ticket without any marker is in neither list, in no pair of either bucket
\* and in no close call; tickets that all lack markers give no pair.
C5_UnclassifiedExcluded ==
    /\ \A i \in DOMAIN tickets :
          Unmarked(tickets[i]) =>
              /\ \A t \in Range(firing_alerts) \cup Range(resolved_alerts) : t.id # i
              /\ i \notin PairIds(matched_pairs) \cup PairIds(manual_review_tickets)
                            \cup PairIds(closed_tickets)
              /\ \A n \in DOMAIN close_calls : close_calls[n].id # i
    /\ (\A i \in DOMAIN tickets : Unmarked(tickets[i])) =>
          matched_pairs = <<>> /\ manual_review_tickets = <<>>

C5_Witness ==
    /\ pc = "done"
    /\ \E i \in DOMAIN tickets : tickets[i].subject = PyStr(ServiceDown)
    /\ matched_pairs # <<>>
    /\ close_calls # <<>>

\* C6: a pair is in closed_tickets exactly when both of its close calls reported
\* success; the loop makes two calls per pair and nothing else, so a ticket closed
\* on its own stays closed.
C6_ClosedIffBoth ==
    AfterProcess =>
        /\ Len(close_calls) = 2 * Len(matched_pairs)
        /\ \A k \in DOMAIN matched_pairs :
              /\ close_calls[2 * k - 1].id = matched_pairs[k].firing_id
              /\ close_calls[2 * k].id = matched_pairs[k].resolved_id
              /\ matched_pairs[k] \in Range(closed_tickets)
                   <=> (close_calls[2 * k - 1].closed /\ close_calls[2 * k].closed)
        /\ \A n \in DOMAIN close_calls : close_calls[n].closed => close_calls[n].id \in remote_closed
        /\ Range(closed_tickets) \subseteq Range(matched_pairs)

\* exactly one of the two closes of a pair succeeded
C6_Witness ==
    /\ pc = "done"
    /\ AfterProcess
    /\ \E k \in DOMAIN matched_pairs :
          /\ close_calls[2 * k - 1].closed # close_calls[2 * k].closed
          /\ matched_pairs[k] \notin Range(closed_tickets)

SummaryComplete ==
    /\ CountFields \subseteq DOMAIN RunResult.summary
    /\ \A f \in CountFields : RunResult.summary[f] \in Nat
    /\ fetch_outcome # "200" => \A f \in CountFields : RunResult.summary[f] = 0

\* C7: run_alert_resolution never stops before its return, and the summary of the
\* result it returns has every count field, each a natural number and zero when
\* nothing was fetched.
C7_RunReturnsCompleteSummary ==
    entry = "run" =>
        /\ pc # "done" => ENABLED Next
        /\ pc = "done" => SummaryComplete

\* a run whose fetch failed, and a run whose classification raised, both returned
C7_Witness ==
    /\ entry = "run"
    /\ pc = "done"
    /\ \/ fetch_outcome \in FetchFailures
       \/ CategorizeRaised /\ Len(tickets) = MaxTickets

\* C8: a finished run executed Fetch, Classify, Pair, auto-close, manual-review
\* notification and Summarize, once each and in that order.
C8_StagesInOrder ==
    (entry \in {"run", "graph"} /\ pc = "done") =>
        stages = <<"fetch", "categorize", "match", "process", "manual_review", "summary">>

\* C9: in run_alert_resolution, when the manual-review bucket is not empty the
\* notifier has been called before the summary is generated, and the summary's
\* email_sent field is what the notifier returned.
C9_NotifiedBeforeSummary ==
    (entry = "run" /\ pc \in {"summarized", "done"} /\ manual_review_tickets # <<>>) =>
        /\ emails # <<>>
        /\ summary.email_sent = emails[Len(emails)].sent

\* C10: the body handed to the notifier has one row for every pair of the
\* manual-review bucket.
C10_BodyListsEveryPair ==
    \A e \in DOMAIN emails :
        \A k \in DOMAIN manual_review_tickets :
            \E r \in DOMAIN emails[e].rows :
                /\ emails[e].rows[r].firing_id = manual_review_tickets[k].firing_id
                /\ emails[e].rows[r].resolved_id = manual_review_tickets[k].resolved_id

\* C11: get_alert_resolution_summary runs fetch, classify and pair only: it makes no
\* close call, closes no ticket and calls no notifier, whatever was fetched.
C11_SummaryReadOnly ==
    entry = "summary" =>
        /\ close_calls = <<>>
        /\ remote_closed = {}
        /\ closed_tickets = <<>>
        /\ emails = <<>>
        /\ email_sent = Missing
        /\ \A i \in DOMAIN stages : stages[i] \in {"fetch", "categorize", "match", "response"}
        /\ pc = "done" => stages = <<"fetch", "categorize", "match", "response">>

\* the endpoint answered with a pair in each bucket
C11_Witness ==
    /\ entry = "summary"
    /\ pc = "done"
    /\ summary.matched_pairs >= 1
    /\ summary.manual_review_tickets >= 1

IsFiringTicket(ticket)   == HasFiringMarker(ticket)
IsResolvedTicket(ticket) == HasResolvedMarker(ticket) /\ ~HasFiringMarker(ticket)

\* C12: a ticket without a usable subject (key absent, None, empty or blank) is
\* skipped on its own: the two lists are those of the batch without such tickets,
\* every other ticket classified by its own markers.
C12_MissingSubjectSkippedAlone ==
    AfterCategorize =>
        /\ firing_alerts = SelectSeq(tickets, IsFiringTicket)
        /\ resolved_alerts = SelectSeq(tickets, IsResolvedTicket)

\* the ticket has what pairing needs: a normalized subject, an id, and a created_at
\* that datetime.fromisoformat accepts, with or without "Z" and fractional seconds
Usable(ticket) ==
    /\ IsStr(ticket.clean_subject) /\ ticket.clean_subject[2] # ""
    /\ ticket.id # 0
    /\ IsStr(ticket.created_at) /\ ParsedOf[ticket.created_at[2]].ok
Matching(f, r) == MatchOf[<<f.clean_subject[2], r.clean_subject[2]>>]
Buckets == matched_pairs \o manual_review_tickets
PairsFor(f, r) == { k \in DOMAIN Buckets : Buckets[k].firing = f /\ Buckets[k].resolved = r }

\* C13: for every firing and resolved ticket that are both usable and whose subjects
\* match there is exactly one pair in the two buckets, and its time difference is
\* resolved.created_at - firing.created_at.
C13_OnePairPerMatch ==
    AfterMatch =>
        \A i \in DOMAIN firing_alerts : \A j \in DOMAIN resolved_alerts :
            LET f == firing_alerts[i]
                r == resolved_alerts[j]
            IN  (Usable(f) /\ Usable(r) /\ Matching(f, r)) =>
                    /\ Cardinality(PairsFor(f, r)) = 1
                    /\ \A k \in PairsFor(f, r) :
                          LET d == TimeDelta(ParsedOf[f.created_at[2]], ParsedOf[r.created_at[2]])
                          IN  Buckets[k].time_diff_minutes = [sec |-> d.sec, us |-> d.us]

StampFails(ticket)  == IsStr(ticket.created_at) /\ ~ParsedOf[ticket.created_at[2]].ok
StampParses(ticket) == ~StampFails(ticket)

\* C14: the buckets the pairing stage stores are the buckets of the same two lists
\* without the tickets whose created_at does not parse: such a ticket removes its
\* own pairs and no other, and the stage does not stop at it.
C14_ParseFailureIsLocal ==
    pc = "matched" =>
        match_alert_pairs(SelectSeq(firing_alerts, StampParses),
                          SelectSeq(resolved_alerts, StampParses))
          = [matched_pairs |-> matched_pairs, manual_review_tickets |-> manual_review_tickets]

\* a firing ticket was paired although another resolved ticket matching it, or an
\* earlier firing ticket, has a created_at that does not parse
C14_Witness ==
    /\ pc = "matched"
    /\ \E k \in DOMAIN Buckets :
          \/ \E j \in DOMAIN resolved_alerts :
                StampFails(resolved_alerts[j]) /\ Matching(Buckets[k].firing, resolved_alerts[j])
          \/ /\ Len(firing_alerts) >= 2
             /\ StampFails(firing_alerts[1])
             /\ Buckets[k].firing = firing_alerts[2]

\* -d for a timedelta d in the normal form (seconds, 0 <= microseconds < 10^6)
Negated(d) ==
    IF d.us = 0 THEN [sec |-> -d.sec, us |-> 0]
    ELSE [sec |-> -d.sec - 1, us |-> 1000000 - d.us]
\* the difference and its absolute value once the two created_at values are swapped
SwappedDiff(pair) ==
    LET d == TimeDelta(ParsedOf[pair.resolved.created_at[2]], ParsedOf[pair.firing.created_at[2]])
    IN  [sec |-> d.sec, us |-> d.us]
InAutoClose(k) == k <= Len(matched_pairs)

\* C15: for every pair of either bucket, swapping the two created_at values negates
\* the time difference, keeps its absolute value and keeps the bucket; a firing ticket
\* created 10 minutes after its resolved ticket has an absolute difference of 10
\* minutes and is in the manual-review bucket.
C15_DispositionByAbsoluteGap ==
    AfterMatch =>
        \A k \in DOMAIN Buckets :
            LET pair == Buckets[k]
            IN  /\ SwappedDiff(pair) = Negated(pair.time_diff_minutes)
                /\ AbsDelta(SwappedDiff(pair)) = pair.abs_time_diff_minutes
                /\ IsAutoClose([abs_time_diff_minutes |-> AbsDelta(SwappedDiff(pair))])
                     <=> InAutoClose(k)
                /\ IsAutoClose(pair) <=> InAutoClose(k)
                /\ (pair.firing.created_at = PyStr(T15) /\ pair.resolved.created_at = PyStr(T5)) =>
                      /\ pair.time_diff_minutes = [sec |-> -600, us |-> 0]
                      /\ pair.abs_time_diff_minutes = [sec |-> 600, us |-> 0]
                      /\ ~InAutoClose(k)

\* the firing ticket was created 10 minutes after the resolved ticket of its pair
C15_Witness ==
    /\ pc = "matched"
    /\ \E k \in DOMAIN manual_review_tickets :
          /\ manual_review_tickets[k].firing.created_at = PyStr(T15)
          /\ manual_review_tickets[k].resolved.created_at = PyStr(T5)

\* C16: both tickets of every pair of either bucket have a non-empty normalized
\* subject, an id and a created_at that parsed, and are tickets of the two lists;
\* nothing in a pair is a default value.
C16_PairsReferenceUsableTickets ==
    AfterMatch =>
        \A k \in DOMAIN Buckets :
            LET pair == Buckets[k]
            IN  /\ Usable(pair.firing) /\ Usable(pair.resolved)
                /\ pair.firing \in Range(firing_alerts)
                /\ pair.resolved \in Range(resolved_alerts)
                /\ pair.firing_id = pair.firing.id /\ pair.firing_id # 0
                /\ pair.resolved_id = pair.resolved.id /\ pair.resolved_id # 0
                /\ pair.firing_subject # "" /\ pair.resolved_subject # ""

\* a pair was produced from lists that also hold a ticket pairing cannot use
C16_Witness ==
    /\ pc = "matched"
    /\ Buckets # <<>>
    /\ \E t \in Range(firing_alerts) : ~Usable(t)
    /\ \A t \in Range(resolved_alerts) : Usable(t)

\* the two tickets are usable, their subjects match and their created_at values are
\* both with or both without a UTC offset, so that their difference exists
Pairable(f, r) ==
    /\ Usable(f) /\ Usable(r)
    /\ Matching(f, r)
    /\ ParsedOf[f.created_at[2]].aware = ParsedOf[r.created_at[2]].aware
PairsOfFiring(f)   == { k \in DOMAIN Buckets : Buckets[k].firing = f }
PairsOfResolved(r) == { k \in DOMAIN Buckets : Buckets[k].resolved = r }

PermsOf ==
    Table([n \in 0..MaxTickets |->
             { p \in [1..n -> 1..n] : \A a, b \in 1..n : p[a] = p[b] => a = b }])
Permuted(seq, p) == [i \in DOMAIN seq |-> seq[p[i]]]
IdPairs(pairs) == { <<pairs[k].firing_id, pairs[k].resolved_id>> : k \in DOMAIN pairs }

\* C18: whatever the order of the firing list and of the resolved list, the
\* (firing id, resolved id) pairs of the auto-close bucket and those of the
\* manual-review bucket are the same.
C18_BucketsOrderIndependent ==
    pc = "matched" =>
        \A pf \in PermsOf[Len(firing_alerts)] : \A pr \in PermsOf[Len(resolved_alerts)] :
            LET r == match_alert_pairs(Permuted(firing_alerts, pf), Permuted(resolved_alerts, pr))
            IN  /\ IdPairs(r.matched_pairs) = IdPairs(matched_pairs)
                /\ IdPairs(r.manual_review_tickets) = IdPairs(manual_review_tickets)

\* two firing tickets were paired with the same resolved ticket, into different buckets
C18_Witness ==
    /\ pc = "matched"
    /\ Len(firing_alerts) = 2
    /\ \E a \in DOMAIN matched_pairs : \E m \in DOMAIN manual_review_tickets :
          /\ matched_pairs[a].resolved_id = manual_review_tickets[m].resolved_id
          /\ matched_pairs[a].firing_id # manual_review_tickets[m].firing_id

FetchFailed == fetch_outcome \in FetchFailures \cup {"not_configured"}

\* C19: after a failed fetch (no configuration, a status other than 200, a timeout, a
\* connection error, another exception) the run has no ticket, goes on to its end,
\* makes no close call and sends no email, and its summary has every count at zero.
C19_FetchFailureIsEmptyBatch ==
    FetchFailed =>
        /\ tickets = <<>> /\ firing_alerts = <<>> /\ resolved_alerts = <<>>
        /\ matched_pairs = <<>> /\ manual_review_tickets = <<>> /\ closed_tickets = <<>>
        /\ close_calls = <<>> /\ remote_closed = {} /\ emails = <<>>
        /\ pc # "done" => ENABLED Next
        /\ (pc = "done" /\ entry \in {"run", "graph"}) =>
              /\ stages[Len(stages)] = "summary"
              /\ \A f \in CountFields : summary[f] = 0

\* a run ended after a response whose status was not 200
C19_Witness ==
    /\ pc = "done"
    /\ entry = "run"
    /\ fetch_outcome = "non_200"
    /\ "process" \in Range(stages)

\* C20: a firing and a resolved ticket whose normalized subjects are a common text
\* followed by the two words of an entry of the status-pair table match: after
\* pairing they are a pair of one of the buckets, and "db-07 connection lost" with
\* "db-07 connection restored" created 40 minutes later is in the manual-review one.
C20_StatusPairsMatch ==
    pc \in {"matched", "done"} =>
        /\ Len(Buckets) = 1
        /\ ( /\ tickets[1].clean_subject = PyStr("db-07 connection lost")
             /\ tickets[2].clean_subject = PyStr("db-07 connection restored")
             /\ tickets[2].created_at = PyStr(T40) )
              => Len(manual_review_tickets) = 1

(***************************************************************************)
(* The matcher on one firing and one resolved ticket (MatcherSpec)         *)
(***************************************************************************)
BothClassified  == Len(firing_alerts) = 1 /\ Len(resolved_alerts) = 1
FiringSubject   == firing_alerts[1].clean_subject[2]
ResolvedSubject == resolved_alerts[1].clean_subject[2]
\* the rule that decided on the two subjects, and on the two subjects exchanged
FiredRule       == RuleOf[<<FiringSubject, ResolvedSubject>>]
SwappedRule     == RuleOf[<<ResolvedSubject, FiringSubject>>]
\* pairing made a pair of the two tickets
Paired          == Len(Buckets) = 1 /\ Buckets[1].firing_id = 1 /\ Buckets[1].resolved_id = 2
Paired_ByMatcher == pc \in {"matched", "done"} /\ BothClassified

\* C21: the tickets of scenario C, "Service unavailable" created at T and "Service
\* back online" created at T + 1 min, are one pair of the auto-close bucket, matched
\* by rule 5.
C21_ScenarioCAutoClosed ==
    ( /\ pc \in {"matched", "done"}
      /\ tickets[1].subject = PyStr(ScenarioC[1])
      /\ tickets[2].subject = PyStr(ScenarioC[2]) ) =>
        /\ Len(matched_pairs) = 1
        /\ manual_review_tickets = <<>>
        /\ matched_pairs[1].firing_id = tickets[1].id
        /\ matched_pairs[1].resolved_id = tickets[2].id
        /\ RuleOf[<<tickets[1].clean_subject[2], tickets[2].clean_subject[2]>>] = 5

\* C22: when rule 1, 2, 3, 6 or 7 decided that two subjects match, the matcher also
\* matches them with the arguments exchanged; some subjects match by rule 8 in one
\* argument order and do not match in the other.
C22_SymmetricRules ==
    /\ (Paired_ByMatcher /\ Paired /\ FiredRule \in {1, 2, 3, 6, 7}) => SwappedRule # 0
    /\ \E p \in MatcherSubjects \X MatcherSubjects :
          RuleOf[p] = 8 /\ RuleOf[<<p[2], p[1]>>] = 0

\* a pair matched by rule 7, the longer subject being the firing one
C22_Witness ==
    /\ pc = "matched"
    /\ BothClassified
    /\ Paired
    /\ FiredRule = 7
    /\ Len(FiringSubject) > Len(ResolvedSubject)

\* the maximal runs of letters, digits, underscores and hyphens of s
RECURSIVE IdTokensFrom(_, _)
IdTokensFrom(s, i) ==
    IF i > Len(s) THEN {}
    ELSE IF IdRun(s, i) > 0
         THEN {SubSeq(s, i, i + IdRun(s, i) - 1)} \cup IdTokensFrom(s, i + IdRun(s, i))
         ELSE IdTokensFrom(s, i + 1)
\* the candidate identifiers of section 4.3, rule 4
IdentifierTokens(s) ==
    { t \in IdTokensFrom(s, 1) :
        /\ Len(t) >= 4
        /\ \E k \in 1..Len(t) : IsDigit(Ch(t, k)) \/ Ch(t, k) \in {"_", "-"} }
SharedIdentifier(a, b) == IdentifierTokens(a) \cap IdentifierTokens(b) # {}

\* C23: two subjects that share an identifier token (length >= 4, of letters, digits,
\* underscores and hyphens, with a digit, an underscore or a hyphen) match, whatever
\* else they hold.
C23_SharedIdentifierMatches ==
    (Paired_ByMatcher /\ SharedIdentifier(FiringSubject, ResolvedSubject)) => Paired

\* a long phrase of x is a phrase of y or is contained in one
LongPhraseWithin(x, y) ==
    \E a \in DOMAIN FindEntities(x) : \E b \in DOMAIN FindEntities(y) :
        /\ Len(FindEntities(x)[a]) > 5
        /\ Contains(FindEntities(y)[b], FindEntities(x)[a])
\* rule 8 as section 4.3 states it: a phrase longer than 5 characters of one string
\* equals, or is contained in, a phrase of the other
PhraseOverlap(x, y) == LongPhraseWithin(x, y) \/ LongPhraseWithin(y, x)

\* the rules of section 4.3 that hold of two normalized subjects, each read on the two
\* subjects themselves
SpecRules(a, b) ==
    { k \in 1..8 :
        CASE k = 1 -> a = b
          [] k = 2 -> RemoveStatusWords(a) = RemoveStatusWords(b)
          [] k = 3 -> NormalizeStatus(a) = NormalizeStatus(b)
          [] k = 4 -> SharedIdentifier(a, b)
          [] k = 5 -> /\ Contains(a, "service") /\ Contains(b, "service")
                      /\ \/ Contains(a, "unavailable") /\ Contains(b, "back online")
                         \/ Contains(a, "back online") /\ Contains(b, "unavailable")
          [] k = 6 -> /\ LongWords(a) # {} /\ LongWords(b) # {}
                      /\ 10 * Cardinality(LongWords(a) \cap LongWords(b))
                           >= 7 * Min(Cardinality(LongWords(a)), Cardinality(LongWords(b)))
          [] k = 7 -> \/ Len(a) >= Len(b) /\ Contains(a, b) /\ 10 * Len(b) >= 7 * Len(a)
                      \/ Len(b) >= Len(a) /\ Contains(b, a) /\ 10 * Len(a) >= 7 * Len(b)
          [] k = 8 -> PhraseOverlap(a, b) }

\* C24: the matcher answers true exactly when one of the rules 1 to 8 of section 4.3
\* holds of the two normalized subjects, and the rule that decides is the first of
\* those that hold.
C24_CascadeOfSpecRules ==
    Paired_ByMatcher =>
        /\ Paired <=> SpecRules(FiringSubject, ResolvedSubject) # {}
        /\ Paired => /\ FiredRule \in SpecRules(FiringSubject, ResolvedSubject)
                     /\ \A k \in SpecRules(FiringSubject, ResolvedSubject) : FiredRule <= k

\* C25: when none of the rules 1 to 7 fires, the matcher answers true exactly when a
\* phrase longer than 5 characters of one of the two strings rule 8 reads equals, or
\* is contained in, a phrase of the other; a phrase of 5 characters or fewer contained
\* in a longer phrase of the other string does not make a match.
C25_Rule8LongPhraseOnly ==
    (Paired_ByMatcher /\ FiredRule \in {0, 8}) =>
        (Paired <=> PhraseOverlap(RemoveStatusWords(FiringSubject),
                                  RemoveStatusWords(ResolvedSubject)))

\* what section 4.5 counts for an entry of the state: its length, 0 when the entry
\* is absent or None
CountOf(v) == IF IsList(v) THEN Len(v[2]) ELSE 0

\* C26: the summary stage ends with a summary in which each count is the length of
\* its collection of the state, a collection that is absent or None counting 0 and
\* the other counts being those of their collections.
C26_SummaryCountsLengths ==
    pc \in {"summarized", "done"} =>
        /\ summary.total_tickets = CountOf(tickets)
        /\ summary.firing_alerts = CountOf(firing_alerts)
        /\ summary.resolved_alerts = CountOf(resolved_alerts)
        /\ summary.matched_pairs = CountOf(matched_pairs)
        /\ summary.closed_tickets = CountOf(closed_tickets)
        /\ summary.manual_review_tickets = CountOf(manual_review_tickets)

\* sub is seq with some of its elements left out, the others in the order of seq
RECURSIVE IsSubList(_, _)
IsSubList(sub, seq) ==
    IF Len(sub) = 0 THEN TRUE
    ELSE IF Len(seq) = 0 THEN FALSE
    ELSE IF Head(sub) = Head(seq) THEN IsSubList(Tail(sub), Tail(seq))
    ELSE IsSubList(sub, Tail(seq))

\* C27: close_ticket is called only with the firing_id or the resolved_id of a pair
\* of matched_pairs (the auto-close bucket); closed_tickets is matched_pairs with
\* some pairs left out, in the same order; so the closed_tickets count of the
\* summary is at most its matched_pairs count.
C27_ClosedWithinAutoClose ==
    /\ LET ids == PairIds(matched_pairs)
       IN  /\ \A n \in DOMAIN close_calls : close_calls[n].id \in ids
           /\ remote_closed \subseteq ids
    /\ IsSubList(closed_tickets, matched_pairs)
    /\ Len(closed_tickets) <= Len(matched_pairs)
    /\ (pc = "done" /\ entry # "summary") =>
           summary.closed_tickets <= summary.matched_pairs

\* of two auto-close pairs both closed, or only the second
C27_Witness ==
    /\ pc = "done"
    /\ AfterProcess
    /\ Len(matched_pairs) = 2
    /\ \/ closed_tickets = matched_pairs
       \/ closed_tickets = <<matched_pairs[2]>>
    /\ summary.closed_tickets = Len(closed_tickets)

\* C28: no ticket that is the firing or the resolved member of a pair of
\* manual_review_tickets is passed to close_ticket in the same run.
C28_ReviewedNeverClosed ==
    \A n \in DOMAIN close_calls : close_calls[n].id \notin PairIds(manual_review_tickets)

\* the close_ticket calls made with a ticket id, and the pairs of the auto-close
\* bucket the ticket is a member of
CallsOn(id)   == Cardinality({ n \in DOMAIN close_calls : close_calls[n].id = id })
PairsWith(id) == Cardinality({ k \in DOMAIN matched_pairs : matched_pairs[k].firing_id = id })
                 + Cardinality({ k \in DOMAIN matched_pairs : matched_pairs[k].resolved_id = id })

\* C29: the calls of close_ticket are, pair after pair in the order of matched_pairs,
\* one on the firing ticket and then one on the resolved ticket, whatever the calls
\* before them returned: two calls per pair, and as many calls on a ticket as there
\* are auto-close pairs it belongs to.
C29_TwoAttemptsInOrder ==
    AfterProcess =>
        /\ DOMAIN close_calls = 1..(2 * Len(matched_pairs))
        /\ \A n \in DOMAIN close_calls :
              /\ close_calls[n].pair = (n + 1) \div 2
              /\ close_calls[n].id = IF n % 2 = 1
                                     THEN matched_pairs[close_calls[n].pair].firing_id
                                     ELSE matched_pairs[close_calls[n].pair].resolved_id
        /\ \A i \in DOMAIN tickets : CallsOn(tickets[i].id) = PairsWith(tickets[i].id)

\* the close of a firing ticket failed, the resolved ticket of its pair was closed
\* all the same, the next pair was closed too, and one ticket is in both pairs
C29_Witness ==
    /\ pc = "done"
    /\ AfterProcess
    /\ Len(matched_pairs) = 2
    /\ ~close_calls[1].closed
    /\ close_calls[2].closed
    /\ matched_pairs[2] \in Range(closed_tickets)
    /\ \E n \in DOMAIN close_calls : CallsOn(close_calls[n].id) = 2

\* C30: close_ticket returns True exactly when the PUT of the status update was
\* made and returned 200, whatever the POST of the note ended in; any other end of
\* the PUT gives False and no further request; without the API configuration it
\* returns False and no request is made.
C30_ClosedIffStatusUpdate200 ==
    \A n \in DOMAIN close_calls :
        LET call == close_calls[n]
        IN  /\ call.closed \in BOOLEAN
            /\ call.closed <=> (Len(call.requests) >= 1
                                /\ call.requests[1] = [method |-> "PUT", outcome |-> "200"])
            /\ ~call.closed => Len(call.requests) <= 1
            /\ ~api_configured => (~call.closed /\ call.requests = <<>>)
            /\ \A m \in DOMAIN call.requests :
                  call.requests[m].method = IF m = 1 THEN "PUT" ELSE "POST"

\* after a status update that returned 200 the note request raised, or returned
\* another status than 201, and the call returned True
C30_Witness ==
    /\ pc = "done"
    /\ \E n \in DOMAIN close_calls :
          /\ close_calls[n].closed
          /\ Len(close_calls[n].requests) = 2
          /\ close_calls[n].requests[2].outcome \in {"non_201", "exception"}
    /\ \E n \in DOMAIN close_calls :
          /\ ~close_calls[n].closed
          /\ Len(close_calls[n].requests) = 1
          /\ close_calls[n].requests[1].outcome \in {"timeout", "connection_error", "exception"}

=============================================================================
